---- MODULE Spec2Model ----
(***************************************************************************)
(* A model of AudioGeneration (src/handAudioThingamabob.py): the engine's  *)
(* shared fields, the controller thread that calls its methods, the        *)
(* audioGen threads that own the output streams, and the callbacks that    *)
(* the audio subsystem runs on each open stream.                           *)
(*                                                                         *)
(* Python floats and numpy samples are modelled as binary floating-point  *)
(* numbers whose every operation rounds as IEEE 754 does, in double        *)
(* precision or in the precision of the array that holds the samples.      *)
(***************************************************************************)
EXTENDS Integers, Sequences, FiniteSets, TLC

(* ------------------------------ bounds -------------------------------- *)

\* audioGen threads that may be spawned in one behaviour
MaxThreads == 2
\* parameter-changing controller calls (set_* and set_parameters) in one behaviour
MaxParamCalls == 1
\* blocks the callbacks write in one behaviour
MaxBlocks == 2
\* longest block handed to apply_reverb when it is exercised on its own
MaxLen == 3
\* consecutive set_parameters calls with one target when smoothing is exercised
MaxSmooth == 3

(* ------------------------- program constants -------------------------- *)

fs == 16000
blocksize == 1024
default_num_echoes == 5

(* ------------------------- natural numbers of any size ---------------- *)

Abs(n) == IF n < 0 THEN -n ELSE n
Min(a, b) == IF a < b THEN a ELSE b
Max(a, b) == IF a < b THEN b ELSE a

\* A natural number is the sequence of its digits in base 2^15, lowest
\* first, without a zero at the high end; <<>> is 0
LimbBits == 15
Base == 32768

\* TLC evaluates an operator's argument anew at every use when it evaluates
\* ENABLED; an argument used more than once is therefore bound to its value
\* first, as in CHOOSE r \in {F(v) : v \in {argument}} : TRUE.

RECURSIVE Pow2(_)
Pow2(k) == IF k = 0 THEN 1 ELSE 2 * Pow2(k - 1)

RECURSIVE BitLen(_)
BitLen(n) == IF n = 0 THEN 0 ELSE 1 + BitLen(n \div 2)

RECURSIVE LowZeros(_)
LowZeros(n) == IF n % 2 = 1 THEN 0 ELSE 1 + LowZeros(n \div 2)

RECURSIVE BTrimTo(_, _)
BTrimTo(a, n) ==
    IF n > 0 /\ a[n] = 0 THEN BTrimTo(a, n - 1) ELSE SubSeq(a, 1, n)

BTrim(a) == CHOOSE r \in {BTrimTo(v, Len(v)) : v \in {a}} : TRUE

RECURSIVE BNat(_)
BNat(n) == IF n = 0 THEN <<>> ELSE <<n % Base>> \o BNat(n \div Base)

RECURSIVE BInt(_)
BInt(a) == IF a = <<>> THEN 0 ELSE a[1] + Base * BInt(Tail(a))

Limb(a, i) == IF i <= Len(a) THEN a[i] ELSE 0

RECURSIVE BAddFrom(_, _, _, _)
BAddFrom(a, b, i, carry) ==
    IF i > Max(Len(a), Len(b))
    THEN IF carry = 0 THEN <<>> ELSE <<carry>>
    ELSE \* the sum of the two digits and the carry is taken once
         CHOOSE r \in {<<s % Base>> \o BAddFrom(a, b, i + 1, s \div Base) :
                       s \in {Limb(a, i) + Limb(b, i) + carry}} : TRUE

BAdd(a, b) ==
    CHOOSE r \in {BAddFrom(u, v, 1, 0) : u \in {a}, v \in {b}} : TRUE

\* a - b for a >= b
RECURSIVE BSubFrom(_, _, _, _)
BSubFrom(a, b, i, borrow) ==
    IF i > Len(a) THEN <<>>
    ELSE CHOOSE r \in {<<IF s < 0 THEN s + Base ELSE s>>
                           \o BSubFrom(a, b, i + 1, IF s < 0 THEN 1 ELSE 0) :
                       s \in {a[i] - Limb(b, i) - borrow}} : TRUE

BSub(a, b) ==
    CHOOSE r \in {BTrim(BSubFrom(u, v, 1, 0)) : u \in {a}, v \in {b}} : TRUE

\* -1, 0 or 1 as a < b, a = b or a > b
RECURSIVE BCmpFrom(_, _, _)
BCmpFrom(a, b, i) ==
    IF i = 0 THEN 0
    ELSE IF a[i] # b[i] THEN (IF a[i] < b[i] THEN -1 ELSE 1)
    ELSE BCmpFrom(a, b, i - 1)

BCmp(a, b) ==
    CHOOSE r \in {IF Len(u) # Len(v) THEN (IF Len(u) < Len(v) THEN -1 ELSE 1)
                   ELSE BCmpFrom(u, v, Len(u)) : u \in {a}, v \in {b}} : TRUE

\* a * k for a digit k
RECURSIVE BMulSmallFrom(_, _, _, _)
BMulSmallFrom(a, k, i, carry) ==
    IF i > Len(a) THEN (IF carry = 0 THEN <<>> ELSE <<carry>>)
    ELSE CHOOSE r \in {<<s % Base>> \o BMulSmallFrom(a, k, i + 1, s \div Base) :
                       s \in {a[i] * k + carry}} : TRUE

BMulSmall(a, k) ==
    CHOOSE r \in {IF n = 0 THEN <<>> ELSE BMulSmallFrom(u, n, 1, 0) :
                   u \in {a}, n \in {k}} : TRUE

\* a times the digits of b from the i-th on
RECURSIVE BMulFrom(_, _, _)
BMulFrom(a, b, i) ==
    IF i > Len(b) THEN <<>>
    ELSE CHOOSE r \in {BAdd(BMulSmall(a, b[i]),
                            IF rest = <<>> THEN <<>> ELSE <<0>> \o rest) :
                       rest \in {BMulFrom(a, b, i + 1)}} : TRUE

BMul(a, b) ==
    CHOOSE r \in {IF u = <<>> THEN <<>> ELSE BMulFrom(u, v, 1) :
                   u \in {a}, v \in {b}} : TRUE

\* quotient and remainder of a by a digit k > 0, from the high digit down
RECURSIVE BDivFrom(_, _, _, _)
BDivFrom(a, k, i, rem) ==
    IF i = 0 THEN [q |-> <<>>, r |-> rem]
    ELSE CHOOSE res \in {[q |-> rest.q \o <<cur \div k>>, r |-> rest.r] :
                         rest \in {BDivFrom(a, k, i - 1, (rem * Base + a[i]) % k)},
                         cur \in {rem * Base + a[i]}} : TRUE

BDivSmall(a, k) ==
    CHOOSE res \in {[q |-> BTrim(d.q), r |-> d.r] :
                    d \in {BDivFrom(u, n, Len(u), 0) :
                           u \in {a}, n \in {k}}} : TRUE

\* a * 2^k and the integer part of a / 2^k
BShl(a, k) ==
    CHOOSE r \in {IF u = <<>> THEN <<>>
                   ELSE [i \in 1..(n \div LimbBits) |-> 0]
                            \o BMulSmall(u, Pow2(n % LimbBits)) :
                   u \in {a}, n \in {k}} : TRUE

BShr(a, k) ==
    CHOOSE r \in {IF n \div LimbBits >= Len(u) THEN <<>>
                   ELSE BDivSmall(SubSeq(u, n \div LimbBits + 1, Len(u)),
                                  Pow2(n % LimbBits)).q :
                   u \in {a}, n \in {k}} : TRUE

\* the number of binary digits of a, and of zeros at its low end (a > 0)
BBits(a) ==
    CHOOSE r \in {IF u = <<>> THEN 0
                   ELSE (Len(u) - 1) * LimbBits + BitLen(u[Len(u)]) :
                   u \in {a}} : TRUE

RECURSIVE BLowZerosFrom(_, _)
BLowZerosFrom(a, i) ==
    IF a[i] = 0 THEN LimbBits + BLowZerosFrom(a, i + 1) ELSE LowZeros(a[i])

BLowZeros(a) == CHOOSE r \in {BLowZerosFrom(u, 1) : u \in {a}} : TRUE

(* ---------------------- binary floating-point numbers ----------------- *)

\* In the arithmetic a float is s * m * 2^e with s its sign (0 for zero) and
\* m an odd natural number of any size. Results are rounded to the nearest
\* number with the given count of significant binary digits, ties to the
\* even one, as IEEE 754 arithmetic does. Infinities, NaN and subnormal
\* numbers do not arise from the values and operations of the program and
\* are not represented.
float64 == 53
float32 == 24

Zero == [s |-> 0, m |-> <<>>, e |-> 0]

Canon(s, M, e) ==
    CHOOSE x \in {IF u = <<>> THEN Zero
                  ELSE [s |-> s, m |-> BShr(u, BLowZeros(u)),
                        e |-> e + BLowZeros(u)] : u \in {M}} : TRUE

\* s * (M + a fraction) * 2^e rounded to p significant digits; sticky tells
\* that the fraction, which is below 1, is not zero
RoundCut(p, s, M, e, sticky, k) ==
    CHOOSE x \in {Canon(s,
                        IF c > 0 \/ (c = 0 /\ (sticky \/ q[1] % 2 = 1))
                        THEN BAdd(q, <<1>>) ELSE q,
                        e + k) :
                  q \in {BShr(M, k)},
                  c \in {BCmp(BShl(BSub(M, BShl(BShr(M, k), k)), 1),
                              BShl(<<1>>, k))}} : TRUE

Round(p, s, M, e, sticky) ==
    CHOOSE x \in {IF BBits(u) <= p THEN Canon(s, u, e)
                  ELSE RoundCut(p, s, u, e, sticky, BBits(u) - p) :
                  u \in {M}} : TRUE

Sign(n) == IF n < 0 THEN -1 ELSE IF n = 0 THEN 0 ELSE 1

\* a float in another precision
Cast(p, x) == CHOOSE r \in {Round(p, u.s, u.m, u.e, FALSE) : u \in {x}} : TRUE

Neg(x) == CHOOSE r \in {[s |-> -u.s, m |-> u.m, e |-> u.e] : u \in {x}} : TRUE

AddAligned(p, x, y, a, b, e) ==
    IF x.s = y.s THEN Round(p, x.s, BAdd(a, b), e, FALSE)
    ELSE CHOOSE r \in {IF c = 0 THEN Zero
                       ELSE IF c > 0 THEN Round(p, x.s, BSub(a, b), e, FALSE)
                       ELSE Round(p, y.s, BSub(b, a), e, FALSE) :
                       c \in {BCmp(a, b)}} : TRUE

AddFloats(p, x, y) ==
    IF x.s = 0 THEN Cast(p, y)
    ELSE IF y.s = 0 THEN Cast(p, x)
    ELSE CHOOSE r \in {AddAligned(p, x, y, a, b, e) :
                       a \in {BShl(x.m, x.e - Min(x.e, y.e))},
                       b \in {BShl(y.m, y.e - Min(x.e, y.e))},
                       e \in {Min(x.e, y.e)}} : TRUE

AddP(p, x, y) ==
    CHOOSE r \in {AddFloats(p, u, v) : u \in {x}, v \in {y}} : TRUE

MulP(p, x, y) ==
    CHOOSE r \in {IF u.s = 0 \/ v.s = 0 THEN Zero
                   ELSE Round(p, u.s * v.s, BMul(u.m, v.m), u.e + v.e, FALSE) :
                   u \in {x}, v \in {y}} : TRUE

\* x / n for an integer n, 0 < |n| < Base: the quotient carries 17 digits
\* or more beyond the precision and the remainder makes the fraction
GuardBits == 32

DivFloat(p, x, n) ==
    IF x.s = 0 THEN Zero
    ELSE CHOOSE r \in {Round(p, x.s * Sign(n), d.q, x.e - (p + GuardBits),
                             d.r # 0) :
                       d \in {BDivSmall(BShl(x.m, p + GuardBits), Abs(n))}} : TRUE

DivP(p, x, n) ==
    CHOOSE r \in {DivFloat(p, u, k) : u \in {x}, k \in {n}} : TRUE

\* the sum, difference and product that are not rounded
Exact == 4096
XSub(x, y) == AddP(Exact, x, Neg(y))
XMul(x, y) == MulP(Exact, x, y)

RECURSIVE XPowOf(_, _)
XPowOf(x, k) ==
    IF k = 0 THEN [s |-> 1, m |-> <<1>>, e |-> 0]
    ELSE XMul(x, XPowOf(x, k - 1))

XPow(x, k) == CHOOSE r \in {XPowOf(u, n) : u \in {x}, n \in {k}} : TRUE

XAbs(x) ==
    CHOOSE r \in {[s |-> Abs(u.s), m |-> u.m, e |-> u.e] : u \in {x}} : TRUE
XLe(x, y) == XSub(x, y).s <= 0

\* A float that the program holds is kept as <<s * hi, lo, e>>, the number
\* s * (hi * 2^30 + lo) * 2^e: hi is the high 23 digits of its 53-digit
\* significand, 2^22 <= hi < 2^23, and lo the low 30. Zero is <<0, 0, 0>>.
\* Every double, and so every single, is kept without loss.
PackDigits(s, M, e) ==
    CHOOSE r \in {<<s * (u[3] + Base * u[4]), u[1] + Base * u[2], e>> :
                   u \in {M}} : TRUE

Pack(x) ==
    CHOOSE r \in {IF u.s = 0 THEN <<0, 0, 0>>
                   ELSE PackDigits(u.s, BShl(u.m, float64 - BBits(u.m)),
                                   u.e - (float64 - BBits(u.m))) :
                   u \in {x}} : TRUE

Unpack(x) ==
    CHOOSE r \in {IF v[1] = 0 THEN Zero
                   ELSE Canon(Sign(v[1]),
                              <<v[2] % Base, v[2] \div Base,
                                Abs(v[1]) % Base, Abs(v[1]) \div Base>>,
                              v[3]) : v \in {x}} : TRUE

\* the float of an integer
R(n) == CHOOSE x \in {Pack(Canon(Sign(k), BNat(Abs(k)), 0)) : k \in {n}} : TRUE

\* sum, product, quotient by an integer and conversion in the precision p
AddF(p, x, y) == Pack(AddP(p, Unpack(x), Unpack(y)))
MulF(p, x, y) == Pack(MulP(p, Unpack(x), Unpack(y)))
DivF(p, x, n) == Pack(DivP(p, Unpack(x), n))
CastF(p, x) == Pack(Cast(p, Unpack(x)))

\* Python's float arithmetic: IEEE 754 double precision
RAdd(x, y) == AddF(float64, x, y)
RSub(x, y) == Pack(AddP(float64, Unpack(x), Neg(Unpack(y))))
RMul(x, y) == MulF(float64, x, y)
RDiv(x, n) == DivF(float64, x, n)
RPow(x, k) == Pack(Cast(float64, XPow(Unpack(x), k)))
RLt(x, y) == XSub(Unpack(x), Unpack(y)).s < 0
RLe(x, y) == XSub(Unpack(x), Unpack(y)).s <= 0

\* the float a decimal literal n/d denotes: the double nearest to it
D(n, d) == RDiv(R(n), d)

\* int(x): x with its fraction dropped
RInt(x) ==
    CHOOSE r \in {IF u.s = 0 THEN 0
                   ELSE u.s * BInt(IF u.e >= 0 THEN BShl(u.m, u.e)
                                   ELSE BShr(u.m, -u.e)) :
                   u \in {Unpack(x)}} : TRUE

(* ------------------------- AudioGeneration.__init__ ------------------- *)

init_freq == R(440)
init_amplitude == D(1, 5)
init_roomSize == D(3, 10)

(* ------------------------------- inputs ------------------------------- *)

Threads == 1..MaxThreads

\* arguments of set_frequency, set_amplitude, set_room_size
FreqInputs == {R(220)}
AmpInputs == {D(1, 2)}
RoomInputs == {D(1, 10000)}

\* buffer averages computed by update_video
AvgFreqs == {R(880)}
AvgAmps == {D(1, 10)}
AvgRooms == {R(1)}

(* ------------------------------- state -------------------------------- *)

VARIABLES
    running, freq, amplitude, roomSize, phase_offset,  \* engine fields
    lock,            \* holder of self.lock
    ctl_pc,          \* position of the controller thread
    ctl_args,        \* arguments of the controller's current call
    nparam,          \* parameter-changing calls made so far
    thr_pc,          \* position of each audioGen thread
    stream,          \* state of the output stream each audioGen thread owns
    nthreads,        \* audioGen threads spawned so far
    cb_pc,           \* position of the callback of each stream
    cb_loc,          \* values the callback has read for the block in progress
    outdata,         \* what the block in each stream's output buffer was made from
    nblocks,         \* blocks written so far
    stopped,         \* (TrackSpec) open streams that were open when a stop_audio() returned
    before,          \* stored triple when the current set_parameters began
    rv_pc,           \* position of a direct apply_reverb call
    rv_signal,       \* its signal argument: the samples
    rv_dtype,        \* and their element type
    rv_time,         \* its reverb_time argument
    rv_out,          \* its outcome
    rv_again,        \* outcome of a second call with the same arguments
    sn,              \* two consecutive callback blocks and one block twice as long
    last_end         \* (TrackSpec) phase at which each stream's last block ended

vars == <<running, freq, amplitude, roomSize, phase_offset, lock, ctl_pc,
          ctl_args, nparam, thr_pc, stream, nthreads, cb_pc, cb_loc, outdata,
          nblocks, stopped, before, rv_pc, rv_signal, rv_dtype, rv_time, rv_out,
          rv_again, sn, last_end>>

\* what the engine's own steps leave alone outside TrackSpec
rv_vars == <<rv_pc, rv_signal, rv_dtype, rv_time, rv_out, rv_again, sn, last_end>>

params == <<freq, amplitude, roomSize>>
ctl_vars == <<ctl_pc, ctl_args, nparam, before>>
thr_vars == <<thr_pc, nthreads>>
cb_vars == <<cb_pc, cb_loc, outdata, nblocks>>

Free == <<"free", 0>>
Ctl == <<"ctl", 0>>
Thr(t) == <<"thr", t>>
Cb(s) == <<"cb", s>>

NoArgs == [f |-> R(0), a |-> R(0), r |-> R(0)]
NoLoc == [phase |-> 0, freq |-> R(0), amplitude |-> R(0), roomSize |-> R(0)]
NoBlock == [phase |-> -1, freq |-> R(0), amplitude |-> R(0), roomSize |-> R(0)]

\* lines 28-36, no thread started and no call in progress
FieldsInit ==
    /\ running = FALSE
    /\ freq = init_freq
    /\ amplitude = init_amplitude
    /\ roomSize = init_roomSize
    /\ phase_offset = 0
    /\ lock = Free
    /\ nparam = 0
    /\ thr_pc = [t \in Threads |-> "unborn"]
    /\ stream = [t \in Threads |-> "none"]
    /\ nthreads = 0
    /\ cb_pc = [t \in Threads |-> "idle"]
    /\ cb_loc = [t \in Threads |-> NoLoc]
    /\ outdata = [t \in Threads |-> NoBlock]
    /\ nblocks = 0
    /\ stopped = {}
    /\ before = NoArgs

EngineInit ==
    /\ FieldsInit
    /\ ctl_pc = "idle"
    /\ ctl_args = NoArgs

(* ---------------------------- apply_reverb ---------------------------- *)

default_decay_factor == D(3, 5)

\* A slice bound k of a sequence of length n, as Python resolves it
PyBound(k, n) == IF k < 0 THEN Max(k + n, 0) ELSE Min(k, n)

\* line 71
delay_samples(reverb_time, num_echoes) ==
    RInt(RMul(RDiv(reverb_time, num_echoes), R(fs)))

\* line 77, left side: echo[delay_samples * i:] starts here (0-based)
EchoStart(n, d, i) == PyBound(d * i, n)
\* line 77, right side: signal[:-delay_samples * i] has this many samples
ShiftLen(n, d, i) == PyBound(-(d * i), n)

\* line 77 raises ValueError when the right side can neither be copied nor
\* broadcast into the left side
SliceMismatch(n, d, i) ==
    LET lhs == n - EchoStart(n, d, i)
        rhs == ShiftLen(n, d, i)
    IN  rhs # lhs /\ rhs # 1

\* An ndarray is the sequence of its samples, signal, with its element type,
\* dtype (float32 or float64). Line 77, signal[...] * decay: numpy converts
\* the Python float to the array's type and multiplies in that type
Scale(dtype, x, decay) == MulF(dtype, x, CastF(dtype, decay))

\* an echo that is scaled but starts at the sample it is added to
EchoUnshifted(signal, dtype, d, i, decay) ==
    LET n == Len(signal)
        a == EchoStart(n, d, i)
    IN  [j \in 1..n |->
            IF j - 1 < a THEN R(0) ELSE Scale(dtype, signal[j], decay)]

\* lines 75-77: the echo of index i
Echo(signal, dtype, d, i, decay) ==
    LET n == Len(signal)
        a == EchoStart(n, d, i)
        rhs == ShiftLen(n, d, i)
    IN  [j \in 1..n |->
            IF j - 1 < a THEN R(0)
            ELSE IF rhs = 1 THEN Scale(dtype, signal[1], decay)
            ELSE Scale(dtype, signal[j - a], decay)]

\* line 80
Clip(x) ==
    CHOOSE r \in {IF RLt(u, R(-1)) THEN R(-1)
                   ELSE IF RLt(R(1), u) THEN R(1) ELSE u : u \in {x}} : TRUE

\* The arrays a call works on are kept by identity: mem[a] holds the samples
\* of array a, and a name of the code stands for an array's identity, so that
\* two names may stand for one array and a write through one is read through
\* the other.

\* reverb_signal = signal: a second name for the array it is given
NpAlias(mem, a) == [mem |-> mem, id |-> a]

\* line 70, np.copy: a new array with the samples of array a
NpCopy(mem, a) == [mem |-> Append(mem, mem[a]), id |-> Len(mem) + 1]

\* lines 73-78: the loop from echo index i on. signal and reverb_signal are
\* the identities of the two arrays; the echo of line 77 is read from signal
\* as it is at that pass, and line 78 adds it in place, in the array's type,
\* to reverb_signal
RECURSIVE EchoLoop(_, _, _, _, _, _, _, _)
EchoLoop(mem, dtype, signal, reverb_signal, d, i, decay_factor, num_echoes) ==
    IF i > num_echoes THEN [err |-> "none", mem |-> mem]
    ELSE IF d * i < Len(mem[signal])
    THEN IF SliceMismatch(Len(mem[signal]), d, i)
         THEN [err |-> "ValueError", mem |-> mem]
         ELSE CHOOSE res \in
                  {EchoLoop([mem EXCEPT ![reverb_signal] = sum], dtype, signal,
                            reverb_signal, d, i + 1, decay_factor, num_echoes) :
                   sum \in {[j \in 1..Len(mem[signal]) |->
                                AddF(dtype, mem[reverb_signal][j],
                                     Echo(mem[signal], dtype, d, i,
                                          RPow(decay_factor, i))[j])]}} : TRUE
    ELSE EchoLoop(mem, dtype, signal, reverb_signal, d, i + 1, decay_factor,
                  num_echoes)

\* lines 66-80, called with an array that holds the samples signal, the only
\* array there is when the call begins. err names the exception raised,
\* "none" for a normal return; out is the array returned, which np.clip
\* makes anew; signal is what the caller's array holds when the call is over
ReverbCall(signal, dtype, reverb_time, decay_factor, num_echoes) ==
    LET copied == NpCopy(<<signal>>, 1)
    IN  IF num_echoes = 0
        THEN [err |-> "ZeroDivisionError", out |-> <<>>, signal |-> signal]
        ELSE CHOOSE call \in
                 {[err |-> res.err,
                   out |-> IF res.err # "none" THEN <<>>
                           ELSE [j \in 1..Len(signal) |->
                                    Clip(res.mem[copied.id][j])],
                   signal |-> res.mem[1]] :
                  res \in {EchoLoop(copied.mem, dtype, 1, copied.id,
                                    delay_samples(reverb_time, num_echoes), 1,
                                    decay_factor, num_echoes)}} : TRUE

\* lines 66-80: what a call raises or returns
apply_reverb(signal, dtype, reverb_time, decay_factor, num_echoes) ==
    CHOOSE r \in {[err |-> call.err, out |-> call.out] :
                  call \in {ReverbCall(signal, dtype, reverb_time,
                                       decay_factor, num_echoes)}} : TRUE

\* Whether apply_reverb raises on a block of n samples: it depends on the
\* block's length and the delay only, never on the samples
ReverbRaises(n, reverb_time, num_echoes) ==
    \/ num_echoes = 0
    \/ \E d \in {delay_samples(reverb_time, num_echoes)} :
          \E i \in 1..num_echoes : d * i < n /\ SliceMismatch(n, d, i)

(* ----------------- apply_reverb exercised on its own ------------------ *)

Samples == {R(-1), R(0), D(1, 2), R(2)}
ReverbTimes == {R(0), D(1, 10000), D(1, 2048), D(1, 1280), D(1, 4)}
Dtypes == {float32, float64}

RECURSIVE SeqsUpTo(_, _)
SeqsUpTo(S, n) ==
    IF n = 0 THEN {<<>>}
    ELSE LET shorter == SeqsUpTo(S, n - 1)
         IN  shorter \cup {Append(q, x) : q \in shorter, x \in S}

\* a unit impulse of eight samples
Impulses == {<<R(1), R(0), R(0), R(0), R(0), R(0), R(0), R(0)>>}

NoOut == [err |-> "pending", out |-> <<>>]
NoSine == [pc |-> "idle", first |-> <<>>, second |-> <<>>, whole |-> <<>>]
NoEnd == [t \in Threads |-> -1]

RvIdle ==
    /\ rv_pc = "idle"
    /\ rv_signal = <<>>
    /\ rv_dtype = float64
    /\ rv_time = R(0)
    /\ rv_out = NoOut
    /\ rv_again = NoOut
    /\ sn = NoSine
    /\ last_end = NoEnd

Init == EngineInit /\ RvIdle

RvInit ==
    /\ EngineInit
    /\ rv_pc = "call"
    /\ rv_signal \in SeqsUpTo(Samples, MaxLen) \cup Impulses
    /\ rv_dtype \in Dtypes
    /\ rv_time \in ReverbTimes
    /\ rv_out = NoOut
    /\ rv_again = NoOut
    /\ sn = NoSine
    /\ last_end = NoEnd

\* a call of apply_reverb with the array rv_signal, the default decay_factor
\* and num_echoes: the caller keeps what is returned or raised, and its array
\* holds what the call has left in it
ApplyReverb ==
    /\ rv_pc = "call"
    /\ \E call \in {ReverbCall(rv_signal, rv_dtype, rv_time,
                                default_decay_factor, default_num_echoes)} :
          /\ rv_out' = [err |-> call.err, out |-> call.out]
          /\ rv_signal' = call.signal
    /\ rv_pc' = "ret"
    /\ UNCHANGED <<running, params, phase_offset, lock, ctl_vars, thr_vars,
                   stream, cb_vars, stopped, rv_dtype, rv_time, rv_again,
                   sn, last_end>>

RvNext == ApplyReverb

ReverbSpec == RvInit /\ [][RvNext]_vars

(* ------------------------- the controller thread ---------------------- *)

\* line 61
alpha == D(1, 5)

\* line 62 (and 63, 64): current * (1 - alpha) + target * alpha
Smooth(current, target) ==
    RAdd(RMul(current, RSub(R(1), alpha)), RMul(target, alpha))

\* the values a stored field takes within k parameter-changing calls: the one
\* __init__ gives it, those a setter is given, and what set_parameters makes
\* of them with its targets, a target being an average or the field itself
\* as update_video read it
RECURSIVE Held(_, _, _, _)
Held(first, given, targets, k) ==
    IF k = 0 THEN {first}
    ELSE CHOOSE r \in {S \cup given
                           \cup {Smooth(x, t) : x \in S, t \in targets \cup S} :
                       S \in {Held(first, given, targets, k - 1)}} : TRUE

\* a field's value when a set_parameters call within the bound begins, with
\* a target of the call
HeldPairs(first, given, targets) ==
    CHOOSE r \in {S \X (targets \cup S) :
                   S \in {Held(first, given, targets, MaxParamCalls - 1)}} : TRUE

\* TLC computes a definition without parameters once. The smoothing of the
\* values the engine's fields take, and whether apply_reverb raises on a
\* callback's block with the values roomSize takes, are tabulated so; a value
\* outside the tables is computed where it is met.
SmoothPairs ==
    HeldPairs(init_freq, FreqInputs, AvgFreqs)
        \cup HeldPairs(init_amplitude, AmpInputs, AvgAmps)
        \cup HeldPairs(init_roomSize, RoomInputs, AvgRooms)

SmoothTable == {<<p[1], p[2], Smooth(p[1], p[2])>> : p \in SmoothPairs}

SmoothOf(current, target) ==
    IF \E e \in SmoothTable : e[1] = current /\ e[2] = target
    THEN (CHOOSE e \in SmoothTable : e[1] = current /\ e[2] = target)[3]
    ELSE Smooth(current, target)

RoomsHeld == Held(init_roomSize, RoomInputs, AvgRooms, MaxParamCalls)

RaisesTable ==
    {<<x, ReverbRaises(blocksize, x, default_num_echoes)>> : x \in RoomsHeld}

\* line 92 on a block of blocksize samples
BlockRaises(reverb_time) ==
    IF \E e \in RaisesTable : e[1] = reverb_time
    THEN (CHOOSE e \in RaisesTable : e[1] = reverb_time)[2]
    ELSE ReverbRaises(blocksize, reverb_time, default_num_echoes)

\* start_audio without its test of running
StartGuardNone == TRUE

\* line 39: start_audio goes on only when the engine is not running
StartGuard == ~running

\* streams that have been opened and not yet closed
OpenStreams == {s \in Threads : stream[s] \in {"active", "complete", "aborted"}}

\* the controller begins a call (one that will find a thread to spawn)
CallStartAudio ==
    /\ ctl_pc = "idle"
    /\ running \/ nthreads < MaxThreads
    /\ ctl_pc' = "start_check"
    /\ UNCHANGED <<running, params, phase_offset, lock, ctl_args, nparam,
                   before, thr_vars, stream, cb_vars, stopped, rv_vars>>

\* line 39
StartCheck ==
    /\ ctl_pc = "start_check"
    /\ ctl_pc' = IF StartGuard THEN "start_set" ELSE "idle"
    /\ UNCHANGED <<running, params, phase_offset, lock, ctl_args, nparam,
                   before, thr_vars, stream, cb_vars, stopped, rv_vars>>

\* a start that also puts the initial freq, amplitude and roomSize back
StartSetResets ==
    /\ ctl_pc = "start_set"
    /\ running' = TRUE
    /\ freq' = init_freq
    /\ amplitude' = init_amplitude
    /\ roomSize' = init_roomSize
    /\ ctl_pc' = "start_spawn"
    /\ UNCHANGED <<phase_offset, lock, ctl_args, nparam, before, thr_vars,
                   stream, cb_vars, stopped, rv_vars>>

\* line 40
StartSet ==
    /\ ctl_pc = "start_set"
    /\ running' = TRUE
    /\ ctl_pc' = "start_spawn"
    /\ UNCHANGED <<params, phase_offset, lock, ctl_args, nparam, before,
                   thr_vars, stream, cb_vars, stopped, rv_vars>>

\* line 41: a new audioGen thread starts
StartSpawn ==
    /\ ctl_pc = "start_spawn"
    /\ nthreads' = nthreads + 1
    /\ thr_pc' = [thr_pc EXCEPT ![nthreads + 1] = "open"]
    /\ ctl_pc' = "idle"
    /\ UNCHANGED <<running, params, phase_offset, lock, ctl_args, nparam,
                   before, stream, cb_vars, stopped, rv_vars>>

CallStopAudio ==
    /\ ctl_pc = "idle"
    /\ ctl_pc' = "stop_lock"
    /\ UNCHANGED <<running, params, phase_offset, lock, ctl_args, nparam,
                   before, thr_vars, stream, cb_vars, stopped, rv_vars>>

\* line 44
StopAcquire ==
    /\ ctl_pc = "stop_lock"
    /\ lock = Free
    /\ lock' = Ctl
    /\ ctl_pc' = "stop_set"
    /\ UNCHANGED <<running, params, phase_offset, ctl_args, nparam, before,
                   thr_vars, stream, cb_vars, stopped, rv_vars>>

\* line 45, the release of the lock and the return
StopSet ==
    /\ ctl_pc = "stop_set"
    /\ running' = FALSE
    /\ lock' = Free
    /\ ctl_pc' = "idle"
    /\ UNCHANGED <<params, phase_offset, ctl_args, nparam, before, thr_vars,
                   stream, cb_vars, stopped, rv_vars>>

\* the same step, with the streams that are open at the return remembered
StopSetTracked ==
    /\ ctl_pc = "stop_set"
    /\ running' = FALSE
    /\ lock' = Free
    /\ ctl_pc' = "idle"
    /\ stopped' = stopped \cup OpenStreams
    /\ UNCHANGED <<params, phase_offset, ctl_args, nparam, before, thr_vars,
                   stream, cb_vars, rv_vars>>

\* set_frequency, set_amplitude, set_room_size are called
CallSetField ==
    /\ ctl_pc = "idle"
    /\ nparam < MaxParamCalls
    /\ nparam' = nparam + 1
    /\ \/ \E f \in FreqInputs :
            /\ ctl_pc' = "setf_lock"
            /\ ctl_args' = [NoArgs EXCEPT !.f = f]
       \/ \E a \in AmpInputs :
            /\ ctl_pc' = "seta_lock"
            /\ ctl_args' = [NoArgs EXCEPT !.a = a]
       \/ \E r \in RoomInputs :
            /\ ctl_pc' = "setr_lock"
            /\ ctl_args' = [NoArgs EXCEPT !.r = r]
    /\ UNCHANGED <<running, params, phase_offset, lock, before, thr_vars,
                   stream, cb_vars, stopped, rv_vars>>

\* lines 48, 52, 56
SetFieldAcquire ==
    /\ ctl_pc \in {"setf_lock", "seta_lock", "setr_lock"}
    /\ lock = Free
    /\ lock' = Ctl
    /\ ctl_pc' = CASE ctl_pc = "setf_lock" -> "setf_set"
                   [] ctl_pc = "seta_lock" -> "seta_set"
                   [] ctl_pc = "setr_lock" -> "setr_set"
    /\ UNCHANGED <<running, params, phase_offset, ctl_args, nparam, before,
                   thr_vars, stream, cb_vars, stopped, rv_vars>>

\* line 49
SetFrequency ==
    /\ ctl_pc = "setf_set"
    /\ freq' = ctl_args.f
    /\ lock' = Free
    /\ ctl_pc' = "idle"
    /\ ctl_args' = NoArgs
    /\ UNCHANGED <<running, amplitude, roomSize, phase_offset, nparam, before,
                   thr_vars, stream, cb_vars, stopped, rv_vars>>

\* line 53
SetAmplitude ==
    /\ ctl_pc = "seta_set"
    /\ amplitude' = ctl_args.a
    /\ lock' = Free
    /\ ctl_pc' = "idle"
    /\ ctl_args' = NoArgs
    /\ UNCHANGED <<running, freq, roomSize, phase_offset, nparam, before,
                   thr_vars, stream, cb_vars, stopped, rv_vars>>

\* line 57
SetRoomSize ==
    /\ ctl_pc = "setr_set"
    /\ roomSize' = ctl_args.r
    /\ lock' = Free
    /\ ctl_pc' = "idle"
    /\ ctl_args' = NoArgs
    /\ UNCHANGED <<running, freq, amplitude, phase_offset, nparam, before,
                   thr_vars, stream, cb_vars, stopped, rv_vars>>

\* lines 196-204: update_video chooses the targets, each the average of its
\* buffer or, the buffer being empty, the engine's field read as it stands;
\* freq_buffer and amp_buffer fill together, and one buffer at least is filled
UpdateVideoTargets ==
    /\ ctl_pc = "idle"
    /\ nparam < MaxParamCalls
    /\ nparam' = nparam + 1
    /\ \E left \in BOOLEAN, right \in BOOLEAN :
         /\ left \/ right
         /\ \E f \in AvgFreqs, a \in AvgAmps, r \in AvgRooms :
              ctl_args' = [f |-> IF left THEN f ELSE freq,
                           a |-> IF left THEN a ELSE amplitude,
                           r |-> IF right THEN r ELSE roomSize]
    /\ ctl_pc' = "sp_lock"
    /\ UNCHANGED <<running, params, phase_offset, lock, before, thr_vars,
                   stream, cb_vars, stopped, rv_vars>>

\* line 60
SetParametersAcquire ==
    /\ ctl_pc = "sp_lock"
    /\ lock = Free
    /\ lock' = Ctl
    /\ before' = [f |-> freq, a |-> amplitude, r |-> roomSize]
    /\ ctl_pc' = "sp_freq"
    /\ UNCHANGED <<running, params, phase_offset, ctl_args, nparam, thr_vars,
                   stream, cb_vars, stopped, rv_vars>>

\* line 62
SetParametersFreq ==
    /\ ctl_pc = "sp_freq"
    /\ freq' = SmoothOf(freq, ctl_args.f)
    /\ ctl_pc' = "sp_amp"
    /\ UNCHANGED <<running, amplitude, roomSize, phase_offset, lock, ctl_args,
                   nparam, before, thr_vars, stream, cb_vars, stopped, rv_vars>>

\* line 63
SetParametersAmp ==
    /\ ctl_pc = "sp_amp"
    /\ amplitude' = SmoothOf(amplitude, ctl_args.a)
    /\ ctl_pc' = "sp_room"
    /\ UNCHANGED <<running, freq, roomSize, phase_offset, lock, ctl_args,
                   nparam, before, thr_vars, stream, cb_vars, stopped, rv_vars>>

\* line 64, the release of the lock and the return
SetParametersRoom ==
    /\ ctl_pc = "sp_room"
    /\ roomSize' = SmoothOf(roomSize, ctl_args.r)
    /\ lock' = Free
    /\ ctl_pc' = "sp_done"
    /\ UNCHANGED <<running, freq, amplitude, phase_offset, ctl_args, nparam,
                   before, thr_vars, stream, cb_vars, stopped, rv_vars>>

\* update_video goes on after set_parameters has returned
SetParametersReturn ==
    /\ ctl_pc = "sp_done"
    /\ ctl_pc' = "idle"
    /\ ctl_args' = NoArgs
    /\ before' = NoArgs
    /\ UNCHANGED <<running, params, phase_offset, lock, nparam, thr_vars,
                   stream, cb_vars, stopped, rv_vars>>

(* -------------------------- the audioGen threads ---------------------- *)

\* line 98: the output stream opens and starts
OpenStream(t) ==
    /\ thr_pc[t] = "open"
    /\ stream' = [stream EXCEPT ![t] = "active"]
    /\ thr_pc' = [thr_pc EXCEPT ![t] = "poll_lock"]
    /\ UNCHANGED <<running, params, phase_offset, lock, ctl_vars, nthreads,
                   cb_vars, stopped, rv_vars>>

\* line 98: the device cannot be opened; the exception ends the thread
OpenFail(t) ==
    /\ thr_pc[t] = "open"
    /\ thr_pc' = [thr_pc EXCEPT ![t] = "failed"]
    /\ UNCHANGED <<running, params, phase_offset, lock, ctl_vars, nthreads,
                   stream, cb_vars, stopped, rv_vars>>

\* line 100
PollAcquire(t) ==
    /\ thr_pc[t] = "poll_lock"
    /\ lock = Free
    /\ lock' = Thr(t)
    /\ thr_pc' = [thr_pc EXCEPT ![t] = "poll_check"]
    /\ UNCHANGED <<running, params, phase_offset, ctl_vars, nthreads, stream,
                   cb_vars, stopped, rv_vars>>

\* lines 101-103: leave the loop, or sleep 100 ms and poll again
PollCheck(t) ==
    /\ thr_pc[t] = "poll_check"
    /\ lock' = Free
    /\ thr_pc' = [thr_pc EXCEPT ![t] = IF ~running THEN "close" ELSE "poll_lock"]
    /\ UNCHANGED <<running, params, phase_offset, ctl_vars, nthreads, stream,
                   cb_vars, stopped, rv_vars>>

\* line 98, the end of the with block: the thread leaves the block and the
\* stream is closed; the thread ends. audioGen does nothing between line 102
\* and this step that would tell it whether a callback of the stream is in
\* progress, so the step is taken wherever the callback is
CloseStream(t) ==
    /\ thr_pc[t] = "close"
    /\ stream' = [stream EXCEPT ![t] = "closed"]
    /\ thr_pc' = [thr_pc EXCEPT ![t] = "done"]
    /\ stopped' = stopped \ {t}
    /\ UNCHANGED <<running, params, phase_offset, lock, ctl_vars, nthreads,
                   cb_vars, rv_vars>>

(* ----------------------------- the callback --------------------------- *)

\* line 98: the audio subsystem asks an active stream for its next block
CallbackInvoke(s) ==
    /\ stream[s] = "active"
    /\ cb_pc[s] = "idle"
    /\ nblocks < MaxBlocks
    /\ cb_pc' = [cb_pc EXCEPT ![s] = "lock"]
    /\ UNCHANGED <<running, params, phase_offset, lock, ctl_vars, thr_vars,
                   stream, cb_loc, outdata, nblocks, stopped, rv_vars>>

\* line 84
CallbackAcquire(s) ==
    /\ cb_pc[s] = "lock"
    /\ lock = Free
    /\ lock' = Cb(s)
    /\ cb_pc' = [cb_pc EXCEPT ![s] = "check"]
    /\ UNCHANGED <<running, params, phase_offset, ctl_vars, thr_vars, stream,
                   cb_loc, outdata, nblocks, stopped, rv_vars>>

\* a callback that leaves the with block right after its test of running
LockDropped(s) == Free

\* the lock's holder once the callback has found the engine running: the
\* with block of line 84 extends to line 96
LockAfterCheck(s) == lock

\* lines 85-86: CallbackStop completes the stream (one that has been closed
\* meanwhile stays closed), else the block begins
CallbackCheck(s) ==
    /\ cb_pc[s] = "check"
    /\ IF ~running
       THEN /\ lock' = Free
            /\ stream' = [stream EXCEPT
                              ![s] = IF @ = "closed" THEN @ ELSE "complete"]
            /\ cb_pc' = [cb_pc EXCEPT ![s] = "idle"]
       ELSE /\ lock' = LockAfterCheck(s)
            /\ cb_pc' = [cb_pc EXCEPT ![s] = "sine"]
            /\ UNCHANGED stream
    /\ UNCHANGED <<running, params, phase_offset, ctl_vars, thr_vars, cb_loc,
                   outdata, nblocks, stopped, rv_vars>>

\* lines 88-89: the raw sine block is made from phase_offset, amplitude, freq
CallbackSine(s) ==
    /\ cb_pc[s] = "sine"
    /\ cb_loc' = [cb_loc EXCEPT ![s] = [phase |-> phase_offset,
                                        freq |-> freq,
                                        amplitude |-> amplitude,
                                        roomSize |-> NoLoc.roomSize]]
    /\ cb_pc' = [cb_pc EXCEPT ![s] = "reverb"]
    /\ UNCHANGED <<running, params, phase_offset, lock, ctl_vars, thr_vars,
                   stream, outdata, nblocks, stopped, rv_vars>>

\* a callback whose exception leaves the lock acquired
CallbackReverbLeak(s) ==
    /\ cb_pc[s] = "reverb"
    /\ IF BlockRaises(roomSize)
       THEN /\ stream' = [stream EXCEPT
                              ![s] = IF @ = "closed" THEN @ ELSE "aborted"]
            /\ cb_pc' = [cb_pc EXCEPT ![s] = "idle"]
            /\ cb_loc' = [cb_loc EXCEPT ![s] = NoLoc]
            /\ UNCHANGED lock
       ELSE /\ cb_loc' = [cb_loc EXCEPT ![s].roomSize = roomSize]
            /\ cb_pc' = [cb_pc EXCEPT ![s] = "write"]
            /\ UNCHANGED <<lock, stream>>
    /\ UNCHANGED <<running, params, phase_offset, ctl_vars, thr_vars, outdata,
                   nblocks, stopped, rv_vars>>

\* line 92: apply_reverb with roomSize; an exception it raises leaves the
\* with block, releasing the lock, and aborts the stream (one that has been
\* closed meanwhile stays closed)
CallbackReverb(s) ==
    /\ cb_pc[s] = "reverb"
    /\ IF BlockRaises(roomSize)
       THEN /\ lock' = Free
            /\ stream' = [stream EXCEPT
                              ![s] = IF @ = "closed" THEN @ ELSE "aborted"]
            /\ cb_pc' = [cb_pc EXCEPT ![s] = "idle"]
            /\ cb_loc' = [cb_loc EXCEPT ![s] = NoLoc]
       ELSE /\ cb_loc' = [cb_loc EXCEPT ![s].roomSize = roomSize]
            /\ cb_pc' = [cb_pc EXCEPT ![s] = "write"]
            /\ UNCHANGED <<lock, stream>>
    /\ UNCHANGED <<running, params, phase_offset, ctl_vars, thr_vars, outdata,
                   nblocks, stopped, rv_vars>>

\* lines 94-95
CallbackWrite(s) ==
    /\ cb_pc[s] = "write"
    /\ outdata' = [outdata EXCEPT ![s] = cb_loc[s]]
    /\ nblocks' = nblocks + 1
    /\ phase_offset' = phase_offset + blocksize
    /\ cb_pc' = [cb_pc EXCEPT ![s] = "wrap"]
    /\ UNCHANGED <<running, params, lock, ctl_vars, thr_vars, stream, cb_loc,
                   stopped, rv_vars>>

\* line 96 and the end of the with block; the callback returns and the audio
\* subsystem takes the buffer
CallbackWrap(s) ==
    /\ cb_pc[s] = "wrap"
    /\ phase_offset' = phase_offset % fs
    /\ lock' = Free
    /\ cb_pc' = [cb_pc EXCEPT ![s] = "idle"]
    /\ cb_loc' = [cb_loc EXCEPT ![s] = NoLoc]
    /\ outdata' = [outdata EXCEPT ![s] = NoBlock]
    /\ UNCHANGED <<running, params, ctl_vars, thr_vars, stream, nblocks,
                   stopped, rv_vars>>

\* the same step, with the phase at which the stream's block ends remembered
CallbackWrapTracked(s) ==
    /\ cb_pc[s] = "wrap"
    /\ phase_offset' = phase_offset % fs
    /\ lock' = Free
    /\ cb_pc' = [cb_pc EXCEPT ![s] = "idle"]
    /\ cb_loc' = [cb_loc EXCEPT ![s] = NoLoc]
    /\ outdata' = [outdata EXCEPT ![s] = NoBlock]
    /\ last_end' = [last_end EXCEPT ![s] = phase_offset % fs]
    /\ UNCHANGED <<running, params, ctl_vars, thr_vars, stream, nblocks,
                   stopped, rv_pc, rv_signal, rv_dtype, rv_time, rv_out, rv_again, sn>>

(* --------------------------- the specification ------------------------ *)

OtherStep ==
    \/ CallStartAudio \/ StartCheck \/ StartSet \/ StartSpawn
    \/ CallStopAudio \/ StopAcquire
    \/ CallSetField \/ SetFieldAcquire
    \/ SetFrequency \/ SetAmplitude \/ SetRoomSize
    \/ UpdateVideoTargets \/ SetParametersAcquire \/ SetParametersFreq
    \/ SetParametersAmp \/ SetParametersRoom \/ SetParametersReturn
    \/ \E t \in Threads :
         \/ OpenStream(t) \/ OpenFail(t) \/ PollAcquire(t) \/ PollCheck(t)
         \/ CloseStream(t)
         \/ CallbackInvoke(t) \/ CallbackAcquire(t) \/ CallbackCheck(t)
         \/ CallbackSine(t) \/ CallbackReverb(t) \/ CallbackWrite(t)

Next == OtherStep \/ StopSet \/ \E t \in Threads : CallbackWrap(t)

Spec == Init /\ [][Next]_vars

\* the same program, remembering which streams each stop_audio() found open
\* and where each stream's last block ended
TrackNext ==
    OtherStep \/ StopSetTracked \/ \E t \in Threads : CallbackWrapTracked(t)

TrackSpec == Init /\ [][TrackNext]_vars

\* Every thread is scheduled fairly: a step that stays possible is taken, and
\* a lock that keeps becoming free is acquired. The controller finishes the
\* calls it has begun, and begins what it likes when it likes.
ControllerStep ==
    \/ StartCheck \/ StartSet \/ StartSpawn \/ StopSet
    \/ SetFrequency \/ SetAmplitude \/ SetRoomSize
    \/ SetParametersFreq \/ SetParametersAmp \/ SetParametersRoom
    \/ SetParametersReturn

ControllerAcquire == StopAcquire \/ SetFieldAcquire \/ SetParametersAcquire

Fairness ==
    /\ WF_vars(ControllerStep)
    /\ SF_vars(ControllerAcquire)
    /\ \A t \in Threads :
        /\ WF_vars(OpenStream(t) \/ OpenFail(t))
        /\ SF_vars(PollAcquire(t))
        /\ WF_vars(PollCheck(t))
        /\ WF_vars(CloseStream(t))
        /\ WF_vars(CallbackInvoke(t))
        /\ SF_vars(CallbackAcquire(t))
        /\ WF_vars(CallbackCheck(t))
        /\ WF_vars(CallbackSine(t))
        /\ WF_vars(CallbackReverb(t))
        /\ WF_vars(CallbackWrite(t))
        /\ WF_vars(CallbackWrap(t))

FairSpec == Init /\ [][Next]_vars /\ Fairness

\* the steps a thread takes inside a with self.lock block
HolderStep ==
    \/ StopSet \/ SetFrequency \/ SetAmplitude \/ SetRoomSize
    \/ SetParametersFreq \/ SetParametersAmp \/ SetParametersRoom
    \/ \E t \in Threads :
         \/ PollCheck(t)
         \/ CallbackCheck(t) \/ CallbackSine(t) \/ CallbackReverb(t)
         \/ CallbackWrite(t) \/ CallbackWrap(t)

\* where the thread that holds the lock is
HolderPc ==
    CASE lock = Ctl -> ctl_pc
      [] lock[1] = "thr" -> thr_pc[lock[2]]
      [] lock[1] = "cb" -> cb_pc[lock[2]]
      [] OTHER -> "none"

\* statements of the with block the holder has yet to run, at most
StepsLeft(pc) ==
    CASE pc = "check" -> 5
      [] pc = "sine" -> 4
      [] pc \in {"reverb", "sp_freq"} -> 3
      [] pc \in {"write", "sp_amp"} -> 2
      [] pc = "none" -> 0
      [] OTHER -> 1

(* ------------------ set_parameters exercised on its own --------------- *)

SmoothFreqs == {R(220), R(440), R(880)}
SmoothAmps == {D(1, 10), D(1, 5), D(1, 2)}
SmoothRooms == {D(1, 10), D(3, 10), R(1)}

\* update_video calls set_parameters with targets that stay the same
SmInit ==
    /\ FieldsInit
    /\ RvIdle
    /\ ctl_pc = "sp_lock"
    /\ \E f \in SmoothFreqs, a \in SmoothAmps, r \in SmoothRooms :
         ctl_args = [f |-> f, a |-> a, r |-> r]

\* the next call, with the same targets
SetParametersAgain ==
    /\ ctl_pc = "sp_done"
    /\ nparam < MaxSmooth - 1
    /\ nparam' = nparam + 1
    /\ ctl_pc' = "sp_lock"
    /\ UNCHANGED <<running, params, phase_offset, lock, ctl_args, before,
                   thr_vars, stream, cb_vars, stopped, rv_vars>>

SmNext ==
    \/ SetParametersAcquire \/ SetParametersFreq \/ SetParametersAmp
    \/ SetParametersRoom \/ SetParametersAgain

SmoothSpec == SmInit /\ [][SmNext]_vars

(* ------- apply_reverb called twice, the engine running in between ----- *)

PureSignals == {<<R(2), D(1, 2), R(-1)>>}
PureTimes == {D(1, 10000), D(1, 2048), D(1, 4)}

PureInit ==
    /\ EngineInit
    /\ rv_pc = "call"
    /\ rv_signal \in PureSignals
    /\ rv_dtype \in Dtypes
    /\ rv_time \in PureTimes
    /\ rv_out = NoOut
    /\ rv_again = NoOut
    /\ sn = NoSine
    /\ last_end = NoEnd

\* the engine's steps between the two calls: parameter updates, starts and
\* stops, and the callbacks of the stream of all but the last thread
Between ==
    /\ rv_pc = "ret"
    /\ Next
    /\ nthreads' < MaxThreads

\* a call with the default decay_factor and num_echoes on the arguments
\* PureSpec passes first, tabulated; a call on anything else is computed where
\* it is met
PureTable ==
    {<<x, d, t, ReverbCall(x, d, t, default_decay_factor, default_num_echoes)>> :
        x \in PureSignals, d \in Dtypes, t \in PureTimes}

ReverbOf(signal, dtype, reverb_time) ==
    IF \E e \in PureTable :
           e[1] = signal /\ e[2] = dtype /\ e[3] = reverb_time
    THEN (CHOOSE e \in PureTable :
              e[1] = signal /\ e[2] = dtype /\ e[3] = reverb_time)[4]
    ELSE ReverbCall(signal, dtype, reverb_time, default_decay_factor,
                    default_num_echoes)

\* lines 66-80, the second call, with the same array and the same other
\* arguments as the first
ApplyReverbAgain ==
    /\ rv_pc = "ret"
    /\ \E call \in {ReverbOf(rv_signal, rv_dtype, rv_time)} :
          /\ rv_again' = [err |-> call.err, out |-> call.out]
          /\ rv_signal' = call.signal
    /\ rv_pc' = "done"
    /\ UNCHANGED <<running, params, phase_offset, lock, ctl_vars, thr_vars,
                   stream, cb_vars, stopped, rv_dtype, rv_time,
                   rv_out, sn, last_end>>

PureNext == ApplyReverb \/ Between \/ ApplyReverbAgain

PureSpec == PureInit /\ [][PureNext]_vars

(* ------------- the callback's sine exercised on its own --------------- *)

\* Angles are exact: rationals <<n, d>> with d > 0 in lowest terms
RECURSIVE GCD(_, _)
GCD(a, b) ==
    IF b = 0 THEN a ELSE CHOOSE g \in {GCD(b, r) : r \in {a % b}} : TRUE

Reduce(n, d) ==
    LET g == GCD(Abs(n), d)
    IN  <<n \div g, d \div g>>

QNorm(n, d) == CHOOSE q \in {Reduce(x, y) : x \in {n}, y \in {d}} : TRUE
QAdd(x, y) == QNorm(x[1] * y[2] + y[1] * x[2], x[2] * y[2])

\* the rational a float is
ToQ(x) ==
    CHOOSE q \in {IF u.e >= 0 THEN <<u.s * BInt(u.m) * Pow2(u.e), 1>>
                  ELSE QNorm(u.s * BInt(u.m), Pow2(-u.e)) :
                  u \in {Unpack(x)}} : TRUE

\* The fractional part of a rational: an angle counted in whole turns
Frac(x) == <<x[1] % x[2], x[2]>>

\* f * k / fs
Turns(f, k) ==
    CHOOSE r \in {QNorm(q[1] * k, q[2] * fs) : q \in {ToQ(f)}} : TRUE

\* lines 88-89: sample i (0-based) of a block started at phase is
\* a * sin(2 pi f t) with t = (i + phase) / fs. The sine is kept as its angle
\* in turns modulo 1, which decides its value.
RawSine(frames, phase, f, a) ==
    [j \in 1..frames |->
        [amp |-> a, turn |-> Frac(Turns(f, (j - 1) + phase))]]

\* sin(2 pi x) = sin(2 pi y) for angles x, y in [0, 1)
SinEq(x, y) == x = y \/ QAdd(x, y) \in {<<1, 2>>, <<3, 2>>}

\* two samples a * sin(..) of one amplitude have the same value
SameSample(x, y) == x.amp = y.amp /\ (x.amp = R(0) \/ SinEq(x.turn, y.turn))

\* lines 95-96
NextPhase(phase, frames) == (phase + frames) % fs

\* frequencies the engine can hold: the initial one, the 528.0 that
\* set_parameters makes of it with the target 880 (line 62), and 440.5 given
\* to set_frequency (line 49)
SineFreqs == {R(440), R(528), D(881, 2)}
\* every value phase_offset takes between callbacks: the multiples of
\* gcd(blocksize, fs) below fs
SinePhases == {128 * k : k \in 0..124}

\* the engine is running, its stream open, between two callbacks
SnInit ==
    /\ running = TRUE
    /\ freq \in SineFreqs
    /\ amplitude = init_amplitude
    /\ roomSize = init_roomSize
    /\ phase_offset \in SinePhases
    /\ lock = Free
    /\ nparam = 0
    /\ thr_pc = [t \in Threads |-> IF t = 1 THEN "poll_lock" ELSE "unborn"]
    /\ stream = [t \in Threads |-> IF t = 1 THEN "active" ELSE "none"]
    /\ nthreads = 1
    /\ cb_pc = [t \in Threads |-> "idle"]
    /\ cb_loc = [t \in Threads |-> NoLoc]
    /\ outdata = [t \in Threads |-> NoBlock]
    /\ nblocks = 0
    /\ stopped = {}
    /\ before = NoArgs
    /\ ctl_pc = "idle"
    /\ ctl_args = NoArgs
    /\ rv_pc = "idle"
    /\ rv_signal = <<>>
    /\ rv_dtype = float64
    /\ rv_time = R(0)
    /\ rv_out = NoOut
    /\ rv_again = NoOut
    /\ last_end = NoEnd
    /\ sn = [NoSine EXCEPT !.pc = "first"]

\* the first of two callbacks of blocksize frames; beside it, the block of
\* twice the length started at the same phase_offset
SineFirst ==
    /\ sn.pc = "first"
    /\ sn' = [pc |-> "second",
              first |-> RawSine(blocksize, phase_offset, freq, amplitude),
              second |-> <<>>,
              whole |-> RawSine(2 * blocksize, phase_offset, freq, amplitude)]
    /\ phase_offset' = NextPhase(phase_offset, blocksize)
    /\ UNCHANGED <<running, params, lock, ctl_vars, thr_vars, stream, cb_vars,
                   stopped, rv_pc, rv_signal, rv_dtype, rv_time, rv_out, rv_again,
                   last_end>>

\* the callback that follows, phase_offset carried over
SineSecond ==
    /\ sn.pc = "second"
    /\ sn' = [sn EXCEPT !.pc = "done",
                        !.second = RawSine(blocksize, phase_offset, freq,
                                           amplitude)]
    /\ phase_offset' = NextPhase(phase_offset, blocksize)
    /\ UNCHANGED <<running, params, lock, ctl_vars, thr_vars, stream, cb_vars,
                   stopped, rv_pc, rv_signal, rv_dtype, rv_time, rv_out, rv_again,
                   last_end>>

SnNext == SineFirst \/ SineSecond

SineSpec == SnInit /\ [][SnNext]_vars

(* ================================ claims ============================== *)

AliveThreads == {t \in Threads : thr_pc[t] \in {"open", "poll_lock", "poll_check", "close"}}
InBlock(s) == cb_pc[s] \in {"sine", "reverb", "write", "wrap"}
EngineState == <<running, freq, amplitude, roomSize, phase_offset, thr_pc,
                 stream, nthreads>>

\* C1: once stop_audio() has returned, no callback of a stream that was open
\* at that moment writes another block, whatever the controller, the
\* stream-owner thread and the callback do next.
C1_NoWriteAfterStop == \A s \in stopped : cb_pc[s] # "wrap"

\* C2: a step of start_audio() taken with running true returns at once and
\* changes no engine field, thread or stream; a step of stop_audio() taken
\* with running false changes none either.
C2_NoOpCalls ==
    [][/\ (ctl_pc = "start_check" /\ running /\ ctl_pc' # ctl_pc)
            => (ctl_pc' = "idle" /\ UNCHANGED EngineState)
       /\ (ctl_pc \in {"stop_lock", "stop_set"} /\ ~running /\ ctl_pc' # ctl_pc)
            => UNCHANGED EngineState]_vars

\* start_audio() has been called on a running engine whose stream is playing
C2_Witness ==
    /\ ctl_pc = "start_check"
    /\ running
    /\ nblocks > 0
    /\ \E s \in Threads : stream[s] = "active"

\* C3: at most one audioGen thread is alive and at most one output stream is
\* open, in every reachable state.
C3_AtMostOne ==
    /\ Cardinality(AliveThreads) <= 1
    /\ Cardinality(OpenStreams) <= 1

\* C4: under fair scheduling of the stream-owner threads and the callbacks,
\* every stream that is open when stop_audio() sets running false (line 45)
\* is eventually closed and its audioGen thread ends.
C4_StopTearsDown ==
    \A s \in Threads :
        (ctl_pc = "stop_set" /\ s \in OpenStreams)
            ~> (stream[s] = "closed" /\ thr_pc[s] = "done")

\* C5: whoever is at a read or a write of running, freq, amplitude or
\* roomSize holds the lock: the controller in start_audio(), stop_audio() and
\* the setters, the stream-owner thread at its test of running, the callback
\* through its block.
C5_AccessUnderLock ==
    /\ ctl_pc \in {"start_check", "start_set", "stop_set", "setf_set",
                   "seta_set", "setr_set", "sp_freq", "sp_amp", "sp_room"}
         => lock = Ctl
    /\ \A t \in Threads : thr_pc[t] = "poll_check" => lock = Thr(t)
    /\ \A s \in Threads : (cb_pc[s] = "check" \/ InBlock(s)) => lock = Cb(s)

\* C6: the block a callback is making uses the freq, amplitude and roomSize
\* that are stored together at one instant: what it has read still equals
\* what is stored, no set_parameters() is between its first and its last
\* write, and no callback reads phase_offset while another is between the
\* increment and the wrap.
C6_Snapshot ==
    \A s \in Threads :
        /\ InBlock(s) => ctl_pc \notin {"sp_amp", "sp_room"}
        /\ cb_pc[s] \in {"reverb", "write"}
             => cb_loc[s].freq = freq /\ cb_loc[s].amplitude = amplitude
        /\ cb_pc[s] = "write" => cb_loc[s].roomSize = roomSize
        /\ cb_pc[s] = "sine"
             => phase_offset < fs /\ \A o \in Threads : cb_pc[o] # "wrap"

\* a block is ready to be written while set_parameters() waits for the lock
\* and another stream's callback waits to begin
C6_Witness ==
    \E s \in Threads :
        /\ cb_pc[s] = "write"
        /\ ctl_pc = "sp_lock"
        /\ \E o \in Threads : cb_pc[o] = "lock"

\* C7: when the output stream cannot be opened the engine is left stopped
\* (running false).
C7_OpenFailureStops ==
    [][\A t \in Threads :
          (thr_pc[t] = "open" /\ thr_pc'[t] = "failed") => ~running']_vars

\* C8: when a callback fails mid-block the lock is released and the engine
\* becomes stopped (running false).
C8_CallbackFailureStops ==
    [][\A s \in Threads :
          (stream[s] = "active" /\ stream'[s] = "aborted")
              => (lock' = Free /\ ~running')]_vars

\* C9: for every block and every reverb_time > 0, apply_reverb returns
\* normally, with as many samples as the block has, each within [-1, 1].
C9_ReverbTotal ==
    (rv_pc = "ret" /\ RLt(R(0), rv_time))
        => /\ rv_out.err = "none"
           /\ Len(rv_out.out) = Len(rv_signal)
           /\ \A j \in 1..Len(rv_out.out) :
                RLe(R(-1), rv_out.out[j]) /\ RLe(rv_out.out[j], R(1))

\* the stored value x after a set_parameters() call that found b stored and
\* had the target t: between b and t, no farther from t than b was; the
\* distances are compared as the real numbers they are
Approaches(b, x, t) ==
    /\ (RLe(b, x) /\ RLe(x, t)) \/ (RLe(t, x) /\ RLe(x, b))
    /\ XLe(XAbs(XSub(Unpack(x), Unpack(t))),
           XAbs(XSub(Unpack(b), Unpack(t))))
    /\ b = t => x = t

\* C10: after each of several set_parameters() calls with one target, every
\* stored field lies between its previous value and the target (inclusive),
\* no farther from the target than before and never past it; a field that
\* equals its target stays equal.
C10_Smoothing ==
    ctl_pc = "sp_done"
        => /\ Approaches(before.f, freq, ctl_args.f)
           /\ Approaches(before.a, amplitude, ctl_args.a)
           /\ Approaches(before.r, roomSize, ctl_args.r)

\* C11: two consecutive blocks of N frames, phase_offset carried from the
\* first to the second (also across the wrap modulo fs), hold the same raw
\* sine samples as one block of 2N frames started at the same phase_offset,
\* for every starting phase_offset and every frequency.
C11_PhaseContinuity ==
    sn.pc = "done" =>
        \A j \in 1..(2 * blocksize) :
            SameSample((sn.first \o sn.second)[j], sn.whole[j])

\* C12: no step of start_audio() or stop_audio() changes freq, amplitude or
\* roomSize, and every block a callback writes is made from the values that
\* are stored when it is written; so the first block after a stop and a start
\* uses what was stored before the stop, not the initial values.
C12_ParamsSurviveRestart ==
    [][/\ (/\ \/ ctl_pc \in {"start_check", "start_set", "start_spawn",
                             "stop_lock", "stop_set"}
              \/ ctl_pc' \in {"start_check", "stop_lock"}
           /\ ctl_pc' # ctl_pc)
            => UNCHANGED params
       /\ \A s \in Threads :
            (cb_pc[s] = "write" /\ cb_pc'[s] = "wrap")
                => /\ outdata'[s].freq = freq
                   /\ outdata'[s].amplitude = amplitude
                   /\ outdata'[s].roomSize = roomSize
                   /\ UNCHANGED params]_vars

\* the stream of a second start has written its first block, made from a
\* frequency that a setter stored before the engine was stopped
C12_Witness ==
    /\ nthreads = 2
    /\ cb_pc[2] = "wrap"
    /\ stream[1] = "closed"
    /\ nblocks = 1
    /\ outdata[2].freq # init_freq
    /\ outdata[2].freq = freq

\* C13: apply_reverb is pure. The array a call is given holds after the call
\* the samples it held before, a call changes no field of the engine, and a
\* second call with the same array and the same other arguments returns (or
\* raises) what the first did, whatever parameter updates and callbacks ran
\* between the two.
C13_ReverbPure ==
    /\ [](rv_pc = "done" => rv_again = rv_out)
    /\ [][rv_pc' # rv_pc
            => UNCHANGED <<rv_signal, rv_dtype, rv_time, running, freq, amplitude,
                           roomSize, phase_offset, lock>>]_vars

\* the second call has returned a block with echoes added to samples the
\* caller's array still holds, after a setter changed roomSize and a callback
\* wrote a block between the two calls
C13_Witness ==
    /\ rv_pc = "done"
    /\ rv_again.err = "none"
    /\ rv_signal \in PureSignals
    /\ rv_again.out # rv_signal
    /\ \E j \in 1..Len(rv_signal) : rv_again.out[j] # Clip(rv_signal[j])
    /\ roomSize # init_roomSize
    /\ nblocks > 0

\* C15: the lock is never held across a synthesis pass: a callback that is
\* making the sine block or applying the reverb does not hold it, and
\* set_parameters() and stop_audio() never wait for the lock while a callback
\* holds it for its block.
C15_LockNotAcrossSynthesis ==
    /\ \A s \in Threads : cb_pc[s] \in {"sine", "reverb"} => lock # Cb(s)
    /\ ctl_pc \in {"sp_lock", "stop_lock"}
         => \A s \in Threads : ~(InBlock(s) /\ lock = Cb(s))

\* sample j (counted from 1) of a block with the echoes i..num_echoes that
\* reach it added to acc in turn, each decay_factor^i times the sample d*i
\* places earlier, in the arithmetic of the block's element type
RECURSIVE EchoSum(_, _, _, _, _, _, _, _)
EchoSum(signal, dtype, acc, j, d, i, decay_factor, num_echoes) ==
    IF i > num_echoes THEN acc
    ELSE EchoSum(signal, dtype,
                 IF d * i < Len(signal) /\ d * i <= j - 1
                 THEN AddF(dtype, acc,
                           Scale(dtype, signal[j - d * i], RPow(decay_factor, i)))
                 ELSE acc,
                 j, d, i + 1, decay_factor, num_echoes)

\* C16: for a delay d = floor((reverb_time / num_echoes) * fs) >= 1,
\* apply_reverb returns, at every index j, the clamp to [-1, 1] of signal[j]
\* plus decay_factor^i * signal[j - d*i] over the echoes i with d*i < N and
\* d*i <= j, summed in floating point in the order of i; with d >= N the
\* output is the input clamped.
C16_EchoFormula ==
    LET d == delay_samples(rv_time, default_num_echoes)
        N == Len(rv_signal)
    IN  (rv_pc = "ret" /\ d >= 1)
          => /\ rv_out.err = "none"
             /\ Len(rv_out.out) = N
             /\ \A j \in 1..N :
                  rv_out.out[j] =
                      Clip(EchoSum(rv_signal, rv_dtype, rv_signal[j], j, d, 1,
                                   default_decay_factor, default_num_echoes))
             /\ d >= N => \A j \in 1..N : rv_out.out[j] = Clip(rv_signal[j])

\* a block of three double-precision samples has come back with two echoes
\* added, one sample clamped and one not: -1 + 0.6 * 0.5 + 0.6^2 * 2, which
\* rounding leaves above 0.02
C16_Witness ==
    /\ rv_pc = "ret"
    /\ delay_samples(rv_time, default_num_echoes) = 1
    /\ rv_dtype = float64
    /\ rv_signal = <<R(2), D(1, 2), R(-1)>>
    /\ rv_out.out[2] = R(1)
    /\ rv_out.out[3] = RAdd(RAdd(R(-1), RMul(D(1, 2), D(3, 5))),
                            RMul(R(2), RPow(D(3, 5), 2)))
    /\ RLt(D(1, 50), rv_out.out[3])

\* 1 + decay_factor + ... + decay_factor^num_echoes
RECURSIVE Gain(_, _)
Gain(decay_factor, num_echoes) ==
    IF num_echoes = 0 THEN R(1)
    ELSE RAdd(RPow(decay_factor, num_echoes), Gain(decay_factor, num_echoes - 1))

\* C17: with reverb_time = 0 apply_reverb returns normally, every echo added
\* at offset 0: each output sample is the clamp to [-1, 1] of signal[j] times
\* (1 + the sum of decay_factor^i over the echoes).
C17_ZeroReverbTime ==
    (rv_pc = "ret" /\ rv_time = R(0))
        => /\ rv_out.err = "none"
           /\ Len(rv_out.out) = Len(rv_signal)
           /\ \A j \in 1..Len(rv_signal) :
                rv_out.out[j] =
                    Clip(RMul(rv_signal[j],
                              Gain(default_decay_factor, default_num_echoes)))

\* C18: 0 <= phase_offset < fs in every state; only a callback that writes a
\* block changes phase_offset, to (the phase it read + frames) mod fs, while a
\* callback that finds running false and the controller's calls leave it
\* alone; and every block of a stream starts at the phase where the previous
\* block of that stream ended.
C18_PhaseCounter ==
    /\ [](0 <= phase_offset /\ phase_offset < fs)
    /\ [][/\ phase_offset' # phase_offset
              => \E s \in Threads :
                    cb_pc[s] \in {"write", "wrap"} /\ cb_pc'[s] # cb_pc[s]
          /\ \A s \in Threads :
                (cb_pc[s] = "wrap" /\ cb_pc'[s] = "idle")
                    => phase_offset' = (cb_loc[s].phase + blocksize) % fs]_vars
    /\ [](\A s \in Threads :
            (cb_pc[s] \in {"reverb", "write", "wrap"} /\ last_end[s] # -1)
                => cb_loc[s].phase = last_end[s])

CtlWaits == ctl_pc \in {"stop_lock", "setf_lock", "seta_lock", "setr_lock", "sp_lock"}
CtlHolds == ctl_pc \in {"stop_set", "setf_set", "seta_set", "setr_set",
                        "sp_freq", "sp_amp", "sp_room"}

\* C19: no state is reached from which a thread waits for the lock forever.
\* The lock's holder is always inside its with block, so every way out of a
\* block (its end, the CallbackStop exit, an exception of the callback) has
\* released the lock and no thread is at an acquisition while it holds the
\* lock; the holder can always take its next step; and every step of the
\* holder brings it nearer to the end of its block, which releases the lock.
C19_NoWaitForever ==
    /\ [](/\ lock = Ctl <=> CtlHolds
          /\ \A t \in Threads :
                /\ lock = Thr(t) <=> thr_pc[t] = "poll_check"
                /\ lock = Cb(t) <=> cb_pc[t] \in {"check", "sine", "reverb",
                                                  "write", "wrap"})
    /\ [](lock # Free => ENABLED HolderStep)
    /\ [][lock # Free
            => \/ lock' = Free
               \/ /\ lock' = lock
                  /\ \/ HolderPc' = HolderPc
                     \/ StepsLeft(HolderPc') < StepsLeft(HolderPc)]_vars

\* the controller, a stream's thread and a callback all wait for the lock
\* just after a callback's exception has released it
C19_Witness ==
    /\ lock = Free
    /\ CtlWaits
    /\ \E t \in Threads : stream[t] = "aborted"
    /\ \E t \in Threads : thr_pc[t] = "poll_lock"
    /\ \E t \in Threads : cb_pc[t] = "lock"

====
